---- MODULE Spec2Model ----
(***************************************************************************)
(* A model of ftrules/fraud2rules.py: the FraudToRules estimator.          *)
(*                                                                         *)
(* The interpreter is Python 2 (np.random.shuffle(range(n)) and            *)
(* map(str, range(k))[i] only work there).  A rule string is modelled as   *)
(* the sequence of its space-separated tokens, so "a <= 3 and b > 5" is    *)
(* <<"a","<=","3","and","b",">","5">> and the empty string is <<>>.        *)
(* Feature names are column identifiers (feature_names is given).          *)
(***************************************************************************)
EXTENDS Integers, Sequences, FiniteSets, TLC

\* ------------------------------------------------------------------ bounds
MaxThreshold == 12     \* thresholds and feature values range over 0..MaxThreshold
MinRows == 8           \* fit receives MinRows..MaxRows rows
MaxRows == 11
MaxShift == 1          \* the shuffles tried: rotations by 0..MaxShift
MaxEstimators == 2     \* n_estimators ranges over 0..MaxEstimators
MaxFits == 2           \* number of fit calls on one object
MaxRules == 3          \* length of a ranked rule list given to decision_function
MaxWeight == 2         \* weights range over 0..MaxWeight
MaxBatch == 2          \* number of records in one predict/decision_function call

\* --------------------------------------------------------------- constants
TREE_UNDEFINED == -2
TREE_LEAF == -1
SigRadix == 10         \* str() of a float keeps a bounded number of digits

feature_names == <<"a", "b">>

VARIABLES
    tree, walked,                       \* Tree Walker on its own
    n_estimators, max_samples,          \* constructor parameters
    attrs, max_samples_, rules_, estimators_, rules,   \* instance attributes
    pc, X, y, ind_test, testing_size, X_test, X_train, loop_i, clf,
    fits, fit_result, fit_returned, clf_fit_args, rules_before,
    call

walkVars == <<tree, walked>>
paramVars == <<n_estimators, max_samples>>
attrVars == <<attrs, max_samples_, rules_, estimators_, rules>>
fitVars == <<pc, X, y, ind_test, testing_size, X_test, X_train, loop_i, clf,
             fits, fit_result, fit_returned, clf_fit_args, rules_before>>
vars == <<walkVars, paramVars, attrVars, fitVars, call>>

\* ------------------------------------------------------------ rule strings
Min(a, b) == IF a < b THEN a ELSE b

\* str(threshold): the digits kept are bounded, the rest is rounded away
StrNumber(t) == ToString(IF t < SigRadix THEN t
                         ELSE ((t + SigRadix \div 2) \div SigRadix) * SigRadix)

ParseNumber(s) == CHOOSE v \in 0..(MaxThreshold + SigRadix) : ToString(v) = s

\* "{} {} {}".format(name, symbol, threshold)
Format(name, sym, threshold) == <<name, sym, StrNumber(threshold)>>

RECURSIVE JoinAnd(_)
\* str.join(' and ', base_name)
JoinAnd(base_name) ==
    IF base_name = <<>> THEN <<>>
    ELSE IF Len(base_name) = 1 THEN Head(base_name)
    ELSE Head(base_name) \o <<"and">> \o JoinAnd(Tail(base_name))

\* ------------------------------------------------------------- Tree Walker
symbol == "<="
symbol2_ge == ">="
symbol2 == ">"

\* feature_name = [feature_names[i] if i != TREE_UNDEFINED else "undefined!" ...]
feature_name(t, node) ==
    IF t.feature[node] # TREE_UNDEFINED THEN feature_names[t.feature[node] + 1]
    ELSE "undefined!"

RECURSIVE recurse(_, _, _)
recurse(t, node, base_name) ==
    IF t.feature[node] # TREE_UNDEFINED
    THEN LET name == feature_name(t, node)
             threshold == t.threshold[node]
         IN  recurse(t, t.children_left[node],
                     Append(base_name, Format(name, symbol, threshold)))
             \o
             recurse(t, t.children_right[node],
                     Append(base_name, Format(name, symbol2, threshold)))
    ELSE << JoinAnd(base_name) >>

_tree_to_rules(t) == recurse(t, 0, <<>>)

\* ---------------------------------------------- trees (external capability)
Arr(s) == [i \in 0..(Len(s) - 1) |-> s[i + 1]]

\* node layouts a depth-first builder produces, by children_left / children_right
Shapes ==
    { [children_left |-> <<-1>>, children_right |-> <<-1>>],
      [children_left |-> <<1, -1, -1>>, children_right |-> <<2, -1, -1>>],
      [children_left |-> <<1, 2, -1, -1, -1>>, children_right |-> <<4, 3, -1, -1, -1>>],
      [children_left |-> <<1, -1, 3, -1, -1>>, children_right |-> <<2, -1, 4, -1, -1>>],
      [children_left |-> <<1, 2, -1, -1, 5, -1, -1>>,
       children_right |-> <<4, 3, -1, -1, 6, -1, -1>> ] }

Thresholds == {v \in 0..MaxThreshold : v % 4 = 3}

TreesOf(s) ==
    LET n == Len(s.children_left)
        internal == {i \in 1..n : s.children_left[i] # TREE_LEAF}
    IN  { [feature |-> Arr([i \in 1..n |-> IF i \in internal THEN f[i] ELSE TREE_UNDEFINED]),
           threshold |-> Arr([i \in 1..n |-> IF i \in internal THEN th[i] ELSE TREE_UNDEFINED]),
           children_left |-> Arr(s.children_left),
           children_right |-> Arr(s.children_right)] :
          f \in [internal -> 0..(Len(feature_names) - 1)],
          th \in [internal -> Thresholds] }

Trees == UNION {TreesOf(s) : s \in Shapes}

NoTree == [feature |-> Arr(<<TREE_UNDEFINED>>), threshold |-> Arr(<<TREE_UNDEFINED>>),
           children_left |-> Arr(<<TREE_LEAF>>), children_right |-> Arr(<<TREE_LEAF>>)]

\* ------------------------------------------- Rule Evaluator (DataFrame.query)
Row(va, vb) == [a |-> va, b |-> vb]

NumTerms(expr) == (Len(expr) + 1) \div 4
Term(expr, k) == SubSeq(expr, 4 * k - 3, 4 * k - 1)

Holds(row, term) ==
    LET v == row[term[1]]
        t == ParseNumber(term[3])
    IN  IF term[2] = "<=" THEN v <= t
        ELSE IF term[2] = ">" THEN v > t
        ELSE v >= t

Satisfies(row, expr) == \A k \in 1..NumTerms(expr) : Holds(row, Term(expr, k))

\* df.query(expr): pandas rejects an empty expression with a ValueError;
\* otherwise the positions (1-based here) of the rows where expr holds
query(df, expr) ==
    IF expr = <<>> THEN [ok |-> FALSE, index |-> {}]
    ELSE [ok |-> TRUE, index |-> {i \in 1..Len(df) : Satisfies(df[i], expr)}]

\* ---------------------------------------------------------- Scoring Engine
Str(r) == [kind |-> "str", rule |-> r, w |-> 0]       \* a plain rule string
Pair(r, weight) == [kind |-> "pair", rule |-> r, w |-> weight]   \* (rule, weight)

\* s[:k]
SliceTo_short(s, k) == SubSeq(s, 1, Min(k, Len(s)) - 1)
SliceTo(s, k) ==
    IF k >= 0 THEN SubSeq(s, 1, Min(k, Len(s)))
    ELSE SubSeq(s, 1, Len(s) + k)

Negate(scores) == [i \in DOMAIN scores |-> 0 - scores[i]]

RECURSIVE accumulate(_, _, _)
\* for (r, w) in selected_rules: scores[list(df.query(r).index)] += w
accumulate(selected_rules, df, scores) ==
    IF selected_rules = <<>> THEN [outcome |-> "ok", scores |-> scores]
    ELSE LET e == Head(selected_rules)
             q == query(df, e.rule)
         IN  IF e.kind # "pair" THEN [outcome |-> "ValueError_unpack", scores |-> <<>>]
             ELSE IF ~q.ok THEN [outcome |-> "ValueError_query", scores |-> <<>>]
             ELSE accumulate(Tail(selected_rules), df,
                             [i \in DOMAIN scores |->
                                 IF i \in q.index THEN scores[i] + e.w ELSE scores[i]])

decision_function(Xb) ==
    IF "rules_" \notin attrs THEN [outcome |-> "AttributeError", scores |-> <<>>]
    ELSE LET selected_rules == SliceTo(rules_, n_estimators)
             r == accumulate(selected_rules, Xb, [i \in 1..Len(Xb) |-> 0])
         IN  IF r.outcome = "ok" THEN [outcome |-> "ok", scores |-> Negate(r.scores)]
             ELSE r

FittedAttributes == {"rules_", "estimators_", "estimators_samples_", "max_samples_"}

\* check_is_fitted(self, [...]) with all_or_any=all
check_is_fitted == FittedAttributes \subseteq attrs

predict(Xb) ==
    IF ~check_is_fitted THEN [outcome |-> "NotFittedError", scores |-> <<>>]
    ELSE LET d == decision_function(Xb)
         IN  IF d.outcome # "ok" THEN d
             ELSE [outcome |-> "ok",
                   scores |-> [i \in DOMAIN d.scores |->
                                  IF d.scores[i] = 0 THEN 1 ELSE -1]]

BatchRows == {Row(0, 0), Row(5, 1)}
Batches == UNION {[1..k -> BatchRows] : k \in 0..MaxBatch}

NoCall == [op |-> "none", outcome |-> "none", X |-> <<>>, result |-> <<>>,
           has_rules |-> FALSE, seen |-> <<>>, old_has |-> FALSE, old |-> <<>>,
           during_fit |-> FALSE, fit_called |-> FALSE, fit_returned |-> FALSE]

Observe(op, Xb, r) ==
    [op |-> op, outcome |-> r.outcome, X |-> Xb, result |-> r.scores,
     has_rules |-> "rules_" \in attrs, seen |-> rules_,
     old_has |-> rules_before.has, old |-> rules_before.list,
     during_fit |-> pc # "idle", fit_called |-> fits > 0,
     fit_returned |-> fit_returned]

Predict ==
    /\ \E Xb \in Batches : call' = Observe("predict", Xb, predict(Xb))
    /\ UNCHANGED <<walkVars, paramVars, attrVars, fitVars>>

DecisionFunction ==
    /\ \E Xb \in Batches :
          call' = Observe("decision_function", Xb, decision_function(Xb))
    /\ UNCHANGED <<walkVars, paramVars, attrVars, fitVars>>

\* -------------------------------------------------------------------- fit
DataRow(i) == Row(i % 4, (i * 3) % 5)

YChoices(n) == { [i \in 1..n |-> IF i % 3 = 1 THEN -1 ELSE 1] }

\* max_samples: a string, an int, or a float given in tenths
MaxSamplesChoices == { [kind |-> "str", v |-> 0], [kind |-> "int", v |-> 3],
                       [kind |-> "float", v |-> 0], [kind |-> "float", v |-> 10] }

\* the trees the induction capability returns here
FitTrees == {t \in Trees : /\ DOMAIN t.feature \subseteq 0..2
                           /\ \A nd \in DOMAIN t.feature :
                                 t.threshold[nd] \in {TREE_UNDEFINED, 3} }

\* int(X.shape[0] / 10.)
TestingSize(n) == n \div 10

\* one outcome of np.random.shuffle(ind_test)
Shuffled(n, s) == [i \in 1..n |-> ((i - 1 + s) % n) + 1]

Take(M, ind) == [k \in 1..Len(ind) |-> M[ind[k]]]

\* lines 154-172
ValidMaxSamples(n_samples) ==
    IF max_samples.kind = "str" THEN [ok |-> FALSE, v |-> 0]
    ELSE IF max_samples.kind = "int"
         THEN [ok |-> TRUE,
               v |-> IF max_samples.v > n_samples THEN n_samples ELSE max_samples.v]
    ELSE IF ~(0 < max_samples.v /\ max_samples.v <= 10) THEN [ok |-> FALSE, v |-> 0]
    ELSE [ok |-> TRUE, v |-> (max_samples.v * n_samples) \div 10]

NoArgs == [called |-> FALSE, X |-> <<>>, y |-> <<>>, rows |-> <<>>]

Locals == <<X, y, ind_test, testing_size, X_test, X_train, loop_i, clf>>

ClearLocals ==
    /\ X' = <<>> /\ y' = <<>> /\ ind_test' = <<>> /\ testing_size' = 0
    /\ X_test' = <<>> /\ X_train' = <<>> /\ loop_i' = 0 /\ clf' = NoTree

Raise(err) ==
    /\ pc' = "idle"
    /\ fit_result' = err
    /\ ClearLocals

\* lines 143-174
Fit_begin ==
    /\ pc = "idle"
    /\ fits < MaxFits
    /\ fits' = fits + 1
    /\ rules_before' = [has |-> "rules_" \in attrs, list |-> rules_]
    /\ clf_fit_args' = NoArgs
    /\ \E n \in MinRows..MaxRows : \E yy \in YChoices(n), s \in 0..MaxShift :
          LET Xin == [i \in 1..n |-> DataRow(i)]
              ts == TestingSize(n)
              ind == Shuffled(n, s)
              Xs == Take(Xin, ind)
              Xtr == SubSeq(Xs, ts + 1, n)
              ms == ValidMaxSamples(Len(Xtr))
          IN  IF ~ms.ok
              THEN /\ Raise("ValueError_max_samples")
                   /\ UNCHANGED attrVars
              ELSE /\ X' = Xin /\ y' = yy /\ ind_test' = ind
                   /\ testing_size' = ts
                   /\ X_test' = SubSeq(Xs, 1, ts)
                   /\ X_train' = Xtr
                   /\ loop_i' = 0 /\ clf' = NoTree
                   /\ max_samples_' = ms.v
                   /\ attrs' = attrs \cup {"max_samples_"}
                   /\ pc' = "l176"
                   /\ UNCHANGED <<fit_result, rules_, estimators_, rules>>
    /\ UNCHANGED <<walkVars, paramVars, fit_returned, call>>

\* line 176: self.rules_ = []
Fit_l176 ==
    /\ pc = "l176"
    /\ rules_' = <<>>
    /\ attrs' = attrs \cup {"rules_"}
    /\ pc' = "l177"
    /\ UNCHANGED <<walkVars, paramVars, max_samples_, estimators_, rules, Locals,
                   fits, fit_result, fit_returned, clf_fit_args, rules_before, call>>

\* line 177: self.estimators_ = []
Fit_l177 ==
    /\ pc = "l177"
    /\ estimators_' = <<>>
    /\ attrs' = attrs \cup {"estimators_"}
    /\ pc' = "l179"
    /\ UNCHANGED <<walkVars, paramVars, max_samples_, rules_, rules, Locals,
                   fits, fit_result, fit_returned, clf_fit_args, rules_before, call>>

\* lines 179-186: clf.fit(X_train, y); self.estimators_.append(clf)
Fit_train ==
    /\ pc = "l179"
    /\ loop_i < n_estimators
    /\ clf_fit_args' = [called |-> TRUE, X |-> X_train, y |-> y,
                        rows |-> SubSeq(ind_test, testing_size + 1, Len(ind_test))]
    /\ IF Len(X_train) # Len(y)
       THEN /\ Raise("ValueError_clf_fit")
            /\ UNCHANGED estimators_
       ELSE /\ \E t \in FitTrees :
                  /\ clf' = t
                  /\ estimators_' = Append(estimators_, t)
            /\ pc' = "l187"
            /\ UNCHANGED <<X, y, ind_test, testing_size, X_test, X_train, loop_i,
                           fit_result>>
    /\ UNCHANGED <<walkVars, paramVars, attrs, max_samples_, rules_, rules,
                   fits, fit_returned, rules_before, call>>

\* lines 187-192: self.rules_ += self._tree_to_rules(clf, self.feature_names)
Fit_extract ==
    /\ pc = "l187"
    /\ LET rs == _tree_to_rules(clf)
       IN  rules_' = rules_ \o [k \in 1..Len(rs) |-> Str(rs[k])]
    /\ loop_i' = loop_i + 1
    /\ pc' = "l179"
    /\ UNCHANGED <<walkVars, paramVars, attrs, max_samples_, estimators_, rules,
                   X, y, ind_test, testing_size, X_test, X_train, clf,
                   fits, fit_result, fit_returned, clf_fit_args, rules_before, call>>

\* lines 211-212: self.rules = [(r, df.query(r)) for r in self.rules_]
Fit_query ==
    /\ pc = "l179"
    /\ loop_i >= n_estimators
    /\ LET df == X_test
       IN  IF \E k \in 1..Len(rules_) : ~query(df, rules_[k].rule).ok
           THEN /\ Raise("ValueError_query")
                /\ UNCHANGED <<attrs, rules>>
           ELSE /\ rules' = [k \in 1..Len(rules_) |->
                               [rule |-> rules_[k].rule,
                                matched |-> query(df, rules_[k].rule).index]]
                /\ attrs' = attrs \cup {"rules"}
                /\ pc' = "l213"
                /\ UNCHANGED <<Locals, fit_result>>
    /\ UNCHANGED <<walkVars, paramVars, max_samples_, rules_, estimators_,
                   fits, fit_returned, clf_fit_args, rules_before, call>>

\* key=lambda x: -x[1]; x[1] of a string is a character and cannot be negated
sort_key(x) == IF x.kind = "pair" THEN [ok |-> TRUE, key |-> 0 - x.w]
               ELSE [ok |-> FALSE, key |-> 0]

RECURSIVE insert(_, _)
insert(sorted_prefix, x) ==
    IF sorted_prefix = <<>> THEN <<x>>
    ELSE LET last == sorted_prefix[Len(sorted_prefix)]
         IN  IF sort_key(last).key <= sort_key(x).key THEN Append(sorted_prefix, x)
             ELSE Append(insert(SubSeq(sorted_prefix, 1, Len(sorted_prefix) - 1), x), last)

RECURSIVE stable_sort(_)
stable_sort(list) ==
    IF list = <<>> THEN <<>>
    ELSE insert(stable_sort(SubSeq(list, 1, Len(list) - 1)), list[Len(list)])

\* sorted(self.rules_, key=lambda x: -x[1])
sorted(list) ==
    IF \E k \in 1..Len(list) : ~sort_key(list[k]).ok THEN [ok |-> FALSE, list |-> <<>>]
    ELSE [ok |-> TRUE, list |-> stable_sort(list)]

\* lines 213-218
Fit_sort ==
    /\ pc = "l213"
    /\ LET r == sorted(rules_)
       IN  IF ~r.ok
           THEN /\ Raise("TypeError_sort")
                /\ UNCHANGED <<rules_, fit_returned>>
           ELSE /\ rules_' = r.list
                /\ fit_returned' = TRUE
                /\ fit_result' = "returned"
                /\ pc' = "idle"
                /\ ClearLocals
    /\ UNCHANGED <<walkVars, paramVars, attrs, max_samples_, estimators_, rules,
                   fits, clf_fit_args, rules_before, call>>

\* ------------------------------------------------------------ the object
InitWalk == tree = NoTree /\ walked = <<>>

InitFit ==
    /\ pc = "idle" /\ X = <<>> /\ y = <<>> /\ ind_test = <<>> /\ testing_size = 0
    /\ X_test = <<>> /\ X_train = <<>> /\ loop_i = 0 /\ clf = NoTree
    /\ fits = 0 /\ fit_result = "none" /\ fit_returned = FALSE
    /\ clf_fit_args = NoArgs
    /\ rules_before = [has |-> FALSE, list |-> <<>>]

\* __init__ sets the parameters and no fitted attribute
Init ==
    /\ InitWalk
    /\ n_estimators \in 0..MaxEstimators
    /\ max_samples \in MaxSamplesChoices
    /\ attrs = {} /\ max_samples_ = 0 /\ rules_ = <<>> /\ estimators_ = <<>>
    /\ rules = <<>>
    /\ InitFit
    /\ call = NoCall

Next ==
    \/ Fit_begin \/ Fit_l176 \/ Fit_l177 \/ Fit_train \/ Fit_extract
    \/ Fit_query \/ Fit_sort
    \/ Predict \/ DecisionFunction

Spec == Init /\ [][Next]_vars

\* ------------------------------------------ Tree Walker applied on its own
InitObject ==
    /\ n_estimators = 1
    /\ max_samples = [kind |-> "float", v |-> 10]
    /\ attrs = {} /\ max_samples_ = 0 /\ rules_ = <<>> /\ estimators_ = <<>>
    /\ rules = <<>>

InitW ==
    /\ tree \in Trees
    /\ walked = <<>>
    /\ InitObject
    /\ InitFit
    /\ call = NoCall

Walk ==
    /\ walked = <<>>
    /\ walked' = _tree_to_rules(tree)
    /\ UNCHANGED <<tree, paramVars, attrVars, fitVars, call>>

NextW == Walk

SpecWalk == InitW /\ [][NextW]_vars

\* ------------------------------------- decision_function applied on its own
Range(s) == {s[i] : i \in DOMAIN s}

\* rule strings the walker emits that the ranking step accepts
ScoreRules == UNION {Range(_tree_to_rules(t)) : t \in FitTrees} \ {<<>>}

WeightedRules == {Pair(r, weight) : r \in ScoreRules, weight \in 0..MaxWeight}

RankedLists ==
    {l \in UNION {[1..k -> WeightedRules] : k \in 0..MaxRules} :
        \A i \in 1..(Len(l) - 1) : l[i].w >= l[i + 1].w}

InitS ==
    /\ InitWalk
    /\ n_estimators \in 0..MaxEstimators
    /\ max_samples = [kind |-> "float", v |-> 10]
    /\ rules_ \in RankedLists
    /\ attrs = {"rules_"}
    /\ max_samples_ = 0 /\ estimators_ = <<>> /\ rules = <<>>
    /\ InitFit
    /\ call = NoCall

NextS == DecisionFunction

SpecScore == InitS /\ [][NextS]_vars

\* ----------------------------------------------------------------- claims
RECURSIVE SumOver(_, _)
SumOver(S, f) ==
    IF S = {} THEN 0
    ELSE LET j == CHOOSE j \in S : TRUE IN f[j] + SumOver(S \ {j}, f)

\* the selected rules a record of a call satisfies
SelectedSatisfied(c, i) ==
    {j \in 1..Len(c.seen) : j <= n_estimators /\ Satisfies(c.X[i], c.seen[j].rule)}

ExpectedScore(c, i) ==
    0 - SumOver(SelectedSatisfied(c, i), [j \in 1..Len(c.seen) |-> c.seen[j].w])

\* C1: decision_function scores each record with minus the sum of the weights
\* of the first n_estimators ranked rules it satisfies (all rules when
\* n_estimators exceeds their number), and with 0 when it satisfies none.
C1_DecisionFunction ==
    (call.op = "decision_function" /\ call.has_rules) =>
        /\ call.outcome = "ok"
        /\ Len(call.result) = Len(call.X)
        /\ \A i \in 1..Len(call.X) :
              /\ call.result[i] = ExpectedScore(call, i)
              /\ SelectedSatisfied(call, i) = {} => call.result[i] = 0

C1_Witness ==
    /\ call.op = "decision_function"
    /\ call.outcome = "ok"
    /\ Len(call.seen) >= 1
    /\ n_estimators > Len(call.seen)
    /\ \E i, j \in 1..Len(call.X) : call.result[i] < -1 /\ call.result[j] = 0

\* C2: after fit has returned, predict labels every record, +1 exactly when
\* the decision-function value is 0.
C2_PredictAfterFit ==
    (call.op = "predict" /\ call.fit_returned) =>
        /\ call.outcome = "ok"
        /\ Len(call.result) = Len(call.X)
        /\ \A i \in 1..Len(call.X) :
              /\ call.result[i] \in {1, -1}
              /\ call.result[i] = 1 <=> ExpectedScore(call, i) = 0

Leaves(t) == {nd \in DOMAIN t.feature : t.feature[nd] = TREE_UNDEFINED}

ParentOf(t, nd) ==
    CHOOSE p \in DOMAIN t.feature : t.children_left[p] = nd \/ t.children_right[p] = nd

RECURSIVE PathTo(_, _)
\* the comparisons on the way from the root to a node, in that order
PathTo(t, nd) ==
    IF nd = 0 THEN <<>>
    ELSE LET p == ParentOf(t, nd)
         IN  Append(PathTo(t, p),
                    <<feature_names[t.feature[p] + 1],
                      IF t.children_left[p] = nd THEN "<=" ELSE ">",
                      StrNumber(t.threshold[p])>>)

Conjunction(path) ==
    [j \in 1..(IF path = <<>> THEN 0 ELSE 4 * Len(path) - 1) |->
        IF j % 4 = 0 THEN "and" ELSE path[(j + 3) \div 4][((j - 1) % 4) + 1]]

AllRows == {Row(va, vb) : va \in 0..MaxThreshold, vb \in 0..MaxThreshold}

\* C3: a tree with k leaves yields k rules, one per leaf, each the conjunction
\* of the comparisons on the path to its leaf ("<=" going left, ">" going
\* right), and every row satisfies exactly one of them.
C3_TreeToRules ==
    walked # <<>> =>
        /\ Len(walked) = Cardinality(Leaves(tree))
        /\ \A l \in Leaves(tree) :
              Cardinality({i \in 1..Len(walked) :
                              walked[i] = Conjunction(PathTo(tree, l))}) = 1
        /\ \A row \in AllRows :
              Cardinality({i \in 1..Len(walked) : Satisfies(row, walked[i])}) = 1

C3_Witness ==
    /\ Len(walked) = 4
    /\ \E i \in 1..Len(walked) : NumTerms(walked[i]) = 2 /\ walked[i][6] = ">"
    /\ \E row \in AllRows : Satisfies(row, walked[4])

\* C4: when fit ends its ranking, it returns and rules_ holds the extracted
\* rules paired with their weights, in descending order of weight.
C4_RankedOnReturn ==
    (pc = "idle" /\ fit_result \in {"returned", "TypeError_sort"}) =>
        /\ fit_result = "returned"
        /\ \A k \in 1..Len(rules_) : rules_[k].kind = "pair"
        /\ \A k \in 1..(Len(rules_) - 1) : rules_[k].w >= rules_[k + 1].w

\* C5: once fit has evaluated the rules on the holdout (line 212), every rule
\* carries a weight, its precision on the holdout rows (anomalies among the
\* matched rows), and 0 when it matches no holdout row.  A weight counts
\* in units of 1/MaxWeight.
C5_WeightIsPrecision ==
    pc = "l213" =>
        \A k \in 1..Len(rules_) :
            LET m == query(X_test, rules_[k].rule).index
                anomalies == {j \in m : y[ind_test[j]] = -1}
            IN  /\ rules_[k].kind = "pair"
                /\ rules_[k].w * Cardinality(m) = MaxWeight * Cardinality(anomalies)
                /\ m = {} => rules_[k].w = 0

\* C6: predict and decision_function on an object that was never fitted both
\* fail with NotFittedError.
C6_NotFitted ==
    (call.op # "none" /\ ~call.fit_called) => call.outcome = "NotFittedError"

\* C7: a call made while fit is running sees the rule list as it was before
\* that fit (the new list exists only once line 213 has run, which ends fit).
C7_AtomicReplace ==
    (call.op # "none" /\ call.during_fit) =>
        (call.has_rules = call.old_has /\ call.seen = call.old)

\* C8: fit does not go past the split with an empty holdout.
C8_EmptyHoldoutFails ==
    pc \in {"l176", "l177", "l179", "l187", "l213"} => testing_size > 0

\* C9: the empty rule of a single-leaf tree is evaluated without error at
\* ranking time and matches every holdout row.
C9_EmptyRuleAlwaysTrue ==
    /\ fit_result # "ValueError_query"
    /\ pc = "l213" =>
          \A k \in 1..Len(rules) :
              rules[k].rule = <<>> => rules[k].matched = 1..Len(X_test)

\* C10: the holdout has floor(n/10) rows, holdout and training rows partition
\* the input, and each tree is trained on the training rows with the labels
\* of those same rows.
C10_TrainOnOwnLabels ==
    /\ pc # "idle" =>
          /\ Len(X_test) = Len(X) \div 10
          /\ Len(X_test) + Len(X_train) = Len(X)
          /\ Range(ind_test) = 1..Len(X)
    /\ clf_fit_args.called =>
          /\ Len(clf_fit_args.X) = Len(clf_fit_args.y)
          /\ \A k \in 1..Len(clf_fit_args.X) :
                clf_fit_args.y[k] = clf_fit_args.y[clf_fit_args.rows[k]]

====
